---- MODULE Spec2Model ----
(***************************************************************************)
(* Model of the bookmark harvesting engine of src/bookmark-scraper-v2.js:  *)
(* the network side channel (stash / mediaMap), the TweetScraper class     *)
(* (constructor, updateTweets, the scroll timer, the mutation observer     *)
(* callback, cleanup) and the host page it runs in (the rendered articles, *)
(* the document height, the outbound requests).                            *)
(*                                                                         *)
(* JavaScript is single threaded: every handler (timer tick, observer      *)
(* callback, console call, patched fetch) runs to completion, so every     *)
(* handler is one action.                                                  *)
(***************************************************************************)
EXTENDS Integers, Sequences, FiniteSets, TLC

(***************************************************************************)
(* Bounds of the model.                                                    *)
(***************************************************************************)
NumItems == 2      \* articles the feed can render
MaxNodes == 2      \* added nodes delivered to one observer callback
MaxStash == 2      \* media requests observed in one session
MaxRun == 7        \* longest run of ticks that measure the same height
MaxCleanups == 2   \* console calls of cleanup() in one session
MaxHeight == 2     \* distinct document heights
BatchSize == 1     \* options.batchSize of the modelled session

ScrollStep == 800  \* default of options.scrollStep

Null == "null"

Items == 1..NumItems
Heights == 1..MaxHeight

(***************************************************************************)
(* Generic helpers.                                                        *)
(***************************************************************************)
Range(s) == {s[i] : i \in 1..Len(s)}

\* insertion-ordered Set of JavaScript: append unless already a member
SetAdd(s, x) == IF x \in Range(s) THEN s ELSE Append(s, x)

RECURSIVE SetAddAll(_, _)
SetAddAll(s, xs) ==
    IF xs = <<>> THEN s ELSE SetAddAll(SetAdd(s, Head(xs)), Tail(xs))

\* [...new Set(xs)]
Dedup(xs) == SetAddAll(<<>>, xs)

\* the concatenation of a sequence of sequences
RECURSIVE Concat(_)
Concat(ss) == IF ss = <<>> THEN <<>> ELSE Head(ss) \o Concat(Tail(ss))

(***************************************************************************)
(* URLs.  A URL is its host, the directory that precedes the identifier,   *)
(* the identifier path segment and the rest; includes() and the regular    *)
(* expressions of the source are predicates over these parts.              *)
(***************************************************************************)
Url(h, d, i, f) == [host |-> h, dir |-> d, id |-> i, file |-> f]

DigitStrings == {ToString(n) : n \in 0..9}

MediaIds == {"7"}
VideoFiles == {"vid.mp4", "manifest.m3u8"}

VideoUrl(m, f) == Url("video.twimg.com", "ext_tw_video", m, f)
ThumbUrl(m) == Url("pbs.twimg.com", "ext_tw_video_thumb", m, "img.jpg")
PhotoUrl(n) == Url("pbs.twimg.com", "media", n, "photo.jpg")
AvatarUrl == Url("pbs.twimg.com", "profile_images", "1", "a.jpg")
DirectUrl(m) == Url("video.twimg.com", "tweet_video", m, "direct.mp4")

\* the requests the host page issues
RequestUrls ==
    {VideoUrl(m, f) : m \in MediaIds, f \in VideoFiles}
        \cup {Url("video.twimg.com", "amplify_video", "7", "vid.mp4"),
              Url("video.twimg.com", "ext_tw_video", "pu", "vid.mp4"),
              Url("api.x.com", "graphql", "7", "Bookmarks")}

\* url.match(/ext_tw_video\/(\d+)\//): the captured identifier or Null
MatchVideoId(url) ==
    IF url.dir = "ext_tw_video" /\ url.id \in DigitStrings THEN url.id ELSE Null

\* thumbUrl.match(/ext_tw_video_thumb\/(\d+)\//)
MatchThumbId(url) ==
    IF url.dir = "ext_tw_video_thumb" /\ url.id \in DigitStrings
    THEN url.id ELSE Null

(***************************************************************************)
(* The host page.  Item i of the feed is one <article data-testid="tweet"> *)
(* whose permalink is /u<i>/status/<i>.  What varies during a session is   *)
(* the item's render stage: dom[i].                                        *)
(***************************************************************************)
Href(p, q) == [path |-> p, query |-> q]
NoHref == Href(<<>>, "")

StatusHref(i) == Href(<<"x.com", "user", "status", ToString(i)>>, "")

\* what an item is: it decides the stages it can be rendered in
ItemKind(i) ==
    CASE i = 1 -> "video"
      [] i = 2 -> "image"
      [] OTHER -> "plain"

\* the stages an item is rendered in before its media blocks are injected
BasicStages(i) == {"absent", "bare"}

\* the items that are also rendered without their <time>: stage "partial"
PartialItems == {1}

\* the stages of a rendered item with and without its media blocks
MediaStages(i) ==
    CASE ItemKind(i) = "video" -> {"bare", "thumb", "video"}
      [] ItemKind(i) = "image" -> {"bare", "photo"}
      [] OTHER -> {"bare"}

AllStages == {"absent", "partial", "bare", "thumb", "video", "photo"}

\* the <article> of item i as rendered in stage st
Element(i, st) ==
    [item |-> i,
     hasTime |-> st # "partial",
     \* href of the <a> around <time>
     timeHref |-> IF st = "partial" THEN NoHref ELSE StatusHref(i),
     \* a[href*="/status/"] in document order
     links |-> IF st = "partial" THEN <<>>
               ELSE <<Href(<<"x.com", "user", "status", ToString(i),
                             "analytics">>, ""),
                      StatusHref(i)>>,
     author |-> "user",
     text |-> "text",
     datetime |-> "2025-01-01T00:00:00.000Z",
     \* already parsed counters of the first matching aria-label; the view
     \* counter has moved by the time the photo is in
     counts |-> [replies |-> 0, reposts |-> 0, likes |-> i,
                 bookmarks |-> 0, views |-> IF st = "photo" THEN 1 ELSE 0],
     \* src of the img nodes matched by the two photo selectors
     imgs |-> CASE st \in {"thumb", "video"} -> <<ThumbUrl("7"), AvatarUrl>>
                [] st = "photo" -> <<PhotoUrl(ToString(i))>>
                [] OTHER -> <<>>,
     \* url(...) of the background-image placeholders
     bgs |-> IF st = "photo" THEN <<PhotoUrl(ToString(i))>> ELSE <<>>,
     \* src of video > source[src]
     vsrc |-> IF st = "video" THEN <<DirectUrl("7")>> ELSE <<>>]

(***************************************************************************)
(* TweetScraper: the pure extractors.                                      *)
(***************************************************************************)
\* extractTweetId
ExtractTweetId(el) ==
    IF ~el.hasTime \/ el.timeHref = NoHref THEN Null
    ELSE LET parts == el.timeHref.path
             candidate == parts[Len(parts)]
         IN IF candidate \in DigitStrings THEN candidate ELSE Null

\* extractMedia
ExtractMedia(root) ==
    LET thumbOf(u) == IF u.dir = "ext_tw_video_thumb" THEN <<u>> ELSE <<>>
        imageOf(u) ==
            IF u.dir = "ext_tw_video_thumb" THEN <<>>
            ELSE IF u.host = "pbs.twimg.com" /\ u.dir = "media" THEN <<u>>
            ELSE <<>>
        nodes == root.imgs \o root.bgs
    IN [images |-> Dedup(Concat([k \in 1..Len(nodes) |-> imageOf(nodes[k])])),
        videos |-> Dedup(root.vsrc),
        thumbnails |-> Dedup(Concat([k \in 1..Len(nodes) |-> thumbOf(nodes[k])]))]

\* extractInteractionData
ExtractInteractionData(el) == el.counts

\* the permalink resolution of extractTweetData
PostUrl(el, tweetId) ==
    LET endsWithId(h) == h.query = "" /\ h.path # <<>>
                            /\ h.path[Len(h.path)] = tweetId
        includesStatusId(h) ==
            \E k \in 1..(Len(h.path) - 1) :
                h.path[k] = "status" /\ h.path[k + 1] = tweetId
        exact == SelectSeq(el.links, endsWithId)
    IN IF exact # <<>> THEN Head(exact)
       ELSE IF el.timeHref # NoHref /\ includesStatusId(el.timeHref)
            THEN el.timeHref
       ELSE IF el.links # <<>> THEN Head(el.links) ELSE NoHref

\* the captured URLs cut down to the first one
CapturedUrlsFirst(map, mediaId) ==
    IF mediaId \in DOMAIN map /\ map[mediaId] # <<>>
    THEN <<map[mediaId][1]>> ELSE <<>>

\* const capturedUrls = mediaMap.get(mediaId) || []
CapturedUrls(map, mediaId) ==
    IF mediaId \in DOMAIN map THEN map[mediaId] ELSE <<>>

\* extractTweetData: <<>> for null, <<record>> otherwise
ExtractTweetData(el, tweetId, map) ==
    IF ~el.hasTime THEN <<>>
    ELSE LET media == ExtractMedia(el)
             capturedOf(thumbUrl) ==
                 LET mediaId == MatchThumbId(thumbUrl)
                 IN IF mediaId = Null THEN <<>>
                    ELSE CapturedUrls(map, mediaId)
             thumbnails == media.thumbnails
             finalVideoUrls ==
                 SetAddAll(media.videos,
                           Concat([k \in 1..Len(thumbnails) |->
                                      capturedOf(thumbnails[k])]))
         IN <<[tweetId |-> tweetId,
               authorName |-> el.author,
               tweetText |-> el.text,
               timeISO |-> el.datetime,
               postUrl |-> PostUrl(el, tweetId),
               interaction |-> ExtractInteractionData(el),
               images |-> media.images,
               videos |-> finalVideoUrls]>>

(***************************************************************************)
(* State.                                                                  *)
(***************************************************************************)
VARIABLES
    dom,          \* [Items -> stage]: the render stage of every item
    scrollHeight, \* document.documentElement.scrollHeight
    mediaMap,     \* media identifier -> the URLs stashed under it, in order
    scraper,      \* the fields of the TweetScraper object
    downloads,    \* every call of downloadTweetsAsJson, in order
    session,      \* history of the session: cleanup runs, stop encounters,
                  \* and (where counted) the current run of stalled ticks
    op            \* history of the last handler that ran

vars == <<dom, scrollHeight, mediaMap, scraper, downloads, session, op>>

\* the options a session is constructed with
Options ==
    {[stopAtTweetId |-> Null, skipTweetIds |-> {}],
     [stopAtTweetId |-> "1", skipTweetIds |-> {}],
     [stopAtTweetId |-> Null, skipTweetIds |-> {"2"}],
     [stopAtTweetId |-> "1", skipTweetIds |-> {"1"}]}

\* the history a handler starts with
NewOp ==
    [scanned |-> FALSE,     \* the handler was a full-document updateTweets
     seen |-> {},           \* items updateTweets took from its enumerations
     stopped |-> FALSE,     \* updateTweets met stopAtTweetId
     captured |-> {},       \* ids pushed to tweets by this handler
     reconciled |-> {},     \* the records that went through late-media
                            \* reconciliation, as they were before it
     cleaned |-> FALSE,     \* cleanup ran in this handler
     workAfterStop |-> FALSE, \* this handler changed tweets or exported a
                            \* batch after cleanup had run in it
     steps |-> <<>>,        \* the steps of the last cleanup run, in order
     scrolls |-> <<>>,      \* the window.scrollBy distances, in order
     failed |-> <<>>,       \* the batch of a failed threshold flush
     requested |-> <<>>,    \* the URL the page passed to the patched function
     forwarded |-> <<>>,    \* the URLs passed on to the original function
     raised |-> FALSE]      \* the handler ended by an uncaught exception

\* the running handler: the object, the page's download log, the histories
World(sc, dl, se, o) == [scraper |-> sc, downloads |-> dl, session |-> se, op |-> o]

(***************************************************************************)
(* TweetScraper: the methods that change state.                            *)
(***************************************************************************)
\* updateHud: this.hud is set by initHud and never unset
UpdateHud(w) ==
    [w EXCEPT !.scraper.hud.text =
                 <<w.scraper.batchIndex, Len(w.scraper.tweets)>>]

\* downloadTweetsAsJson: the export either happens or throws inside the try;
\* the catch logs and the method returns normally in both cases
DownloadTweetsAsJson(w, tweetsArray, kind, ok) ==
    [w EXCEPT !.downloads =
                 Append(@, [kind |-> kind, batch |-> tweetsArray, ok |-> ok])]

\* cleanup, step 1: if (this.tweets.length) this.downloadTweetsAsJson(...)
FlushLeftovers(w, ok) ==
    IF Len(w.scraper.tweets) > 0
    THEN [DownloadTweetsAsJson(w, w.scraper.tweets, "final", ok)
             EXCEPT !.op.steps = Append(@, "flush"),
                    !.op.workAfterStop = @ \/ w.op.cleaned]
    ELSE w

\* cleanup, step 2: clearInterval(this.scrollTimer)
ClearScrollTimer(w) ==
    [w EXCEPT !.scraper.scrollTimer = FALSE,
              !.op.steps = Append(@, "clearInterval")]

\* cleanup, step 3: this.observer.disconnect()
DisconnectObserver(w) ==
    [w EXCEPT !.scraper.observer = FALSE,
              !.op.steps = Append(@, "disconnect")]

\* cleanup, step 4: this.hud?.remove()
RemoveHud(w) == [w EXCEPT !.scraper.hud.attached = FALSE]

\* cleanup that also forgets the known ids
CleanupForgets(w, ok) ==
    LET w0 == [w EXCEPT !.op.steps = <<>>]
        w4 == RemoveHud(DisconnectObserver(ClearScrollTimer(
                  FlushLeftovers(w0, ok))))
    IN [w4 EXCEPT !.session.cleanups = @ + 1, !.op.cleaned = TRUE,
                  !.scraper.processedTweetIds = {}]

\* cleanup with the teardown moved in front of the flush
CleanupTeardownFirst(w, ok) ==
    LET w0 == [w EXCEPT !.op.steps = <<>>]
        w4 == RemoveHud(FlushLeftovers(DisconnectObserver(ClearScrollTimer(w0)),
                                       ok))
    IN [w4 EXCEPT !.session.cleanups = @ + 1, !.op.cleaned = TRUE]

Cleanup(w, ok) ==
    LET w0 == [w EXCEPT !.op.steps = <<>>]
        w4 == RemoveHud(DisconnectObserver(ClearScrollTimer(
                  FlushLeftovers(w0, ok))))
    IN [w4 EXCEPT !.session.cleanups = @ + 1, !.op.cleaned = TRUE]

\* this.tweets.find((t) => t.tweetId === tweetId): its index, 0 when none
FindTweet(tweets, tweetId) ==
    IF \E k \in 1..Len(tweets) : tweets[k].tweetId = tweetId
    THEN CHOOSE k \in 1..Len(tweets) :
             /\ tweets[k].tweetId = tweetId
             /\ \A j \in 1..(k - 1) : tweets[j].tweetId # tweetId
    ELSE 0

\* the late-media branch that also refreshes the counters of the record
LateMediaRefreshes(w, k, el) ==
    LET media == ExtractMedia(el)
        already == w.scraper.tweets[k]
        images == IF Len(media.images) > 0 /\ Len(already.images) = 0
                  THEN media.images ELSE already.images
        videos == IF Len(media.videos) > 0 /\ Len(already.videos) = 0
                  THEN media.videos ELSE already.videos
    IN [w EXCEPT !.scraper.tweets[k].images = images,
                 !.scraper.tweets[k].videos = videos,
                 !.scraper.tweets[k].interaction = ExtractInteractionData(el),
                 !.op.reconciled = @ \cup {already}]

\* the late-media branch replacing a field whenever new media was found
LateMediaOverwrites(w, k, el) ==
    LET media == ExtractMedia(el)
        already == w.scraper.tweets[k]
        images == IF Len(media.images) > 0 THEN media.images ELSE already.images
        videos == IF Len(media.videos) > 0 THEN media.videos ELSE already.videos
    IN [w EXCEPT !.scraper.tweets[k].images = images,
                 !.scraper.tweets[k].videos = videos,
                 !.op.reconciled = @ \cup {already}]

\* the late-media branch of updateTweets on the record at index k
LateMedia(w, k, el) ==
    LET media == ExtractMedia(el)
        already == w.scraper.tweets[k]
        images == IF Len(media.images) > 0 /\ Len(already.images) = 0
                  THEN media.images ELSE already.images
        videos == IF Len(media.videos) > 0 /\ Len(already.videos) = 0
                  THEN media.videos ELSE already.videos
    IN [w EXCEPT !.scraper.tweets[k].images = images,
                 !.scraper.tweets[k].videos = videos,
                 !.op.reconciled = @ \cup {already},
                 !.op.workAfterStop =
                     @ \/ (w.op.cleaned
                             /\ (images # already.images
                                   \/ videos # already.videos))]

\* the capture without this.processedTweetIds.add(tweetId)
CaptureUnmarked(w, tweetId, tweetData) ==
    UpdateHud([w EXCEPT !.scraper.tweets = Append(@, tweetData),
                        !.op.captured = @ \cup {tweetId},
                        !.op.workAfterStop = @ \/ w.op.cleaned])

\* the capture at the end of the loop body of updateTweets
Capture(w, tweetId, tweetData) ==
    UpdateHud([w EXCEPT !.scraper.processedTweetIds = @ \cup {tweetId},
                        !.scraper.tweets = Append(@, tweetData),
                        !.op.captured = @ \cup {tweetId},
                        !.op.workAfterStop = @ \/ w.op.cleaned])

\* the stop branch that also marks the stop id as known
StopHereMarks(w, ok) ==
    Cleanup([w EXCEPT !.op.stopped = TRUE,
                      !.scraper.processedTweetIds =
                          @ \cup {w.scraper.stopAtTweetId},
                      !.session.stopSnap =
                          IF @ = <<>> THEN <<w.scraper.tweets>> ELSE @], ok)

\* the branch of updateTweets taken on stopAtTweetId, up to its return
StopHere(w, ok) ==
    Cleanup([w EXCEPT !.op.stopped = TRUE,
                      !.session.stopSnap =
                          IF @ = <<>> THEN <<w.scraper.tweets>> ELSE @], ok)

\* the known-id branch capturing again an id whose record is gone
KnownIdRecaptures(w, el, tweetId, seeded) ==
    LET a == FindTweet(w.scraper.tweets, tweetId)
        tweetData == ExtractTweetData(el, tweetId, mediaMap)
    IN IF seeded /\ a # 0 THEN LateMedia(w, a, el)
       ELSE IF a = 0 /\ tweetData # <<>> THEN Capture(w, tweetId, tweetData[1])
       ELSE w

\* the known-id branch reconciling in every call, seeded or not
KnownIdAnyCall(w, el, tweetId, seeded) ==
    LET a == FindTweet(w.scraper.tweets, tweetId)
    IN IF a # 0 THEN LateMedia(w, a, el) ELSE w

\* the body of if (this.processedTweetIds.has(tweetId)), up to its continue
KnownId(w, el, tweetId, seeded) ==
    LET a == FindTweet(w.scraper.tweets, tweetId)
    IN IF seeded /\ a # 0 THEN LateMedia(w, a, el) ELSE w

RECURSIVE UpdateTweetsLoop(_, _, _, _, _)

\* the loop left at an element that yields no id or no record
ContinueLeaves(w, tweetEls, k, seeded, ok) == w

\* continue, after if (!tweetId) and after if (!tweetData)
Continue(w, tweetEls, k, seeded, ok) ==
    UpdateTweetsLoop(w, tweetEls, k + 1, seeded, ok)

\* the loop testing the stop id before the known ids
UpdateTweetsLoopStopFirst(w, tweetEls, k, seeded, ok) ==
    IF k > Len(tweetEls) THEN w
    ELSE LET el == tweetEls[k]
             tweetId == ExtractTweetId(el)
             w1 == [w EXCEPT !.op.seen = @ \cup {el.item}]
         IN IF tweetId = Null
            THEN Continue(w1, tweetEls, k, seeded, ok)
            ELSE IF tweetId = w1.scraper.stopAtTweetId
            THEN StopHere(w1, ok)
            ELSE IF tweetId \in w1.scraper.processedTweetIds
            THEN UpdateTweetsLoop(KnownId(w1, el, tweetId, seeded),
                                  tweetEls, k + 1, seeded, ok)
            ELSE LET tweetData == ExtractTweetData(el, tweetId, mediaMap)
                 IN IF tweetData = <<>>
                    THEN Continue(w1, tweetEls, k, seeded, ok)
                    ELSE UpdateTweetsLoop(Capture(w1, tweetId, tweetData[1]),
                                          tweetEls, k + 1, seeded, ok)

\* the loop of updateTweets from element k of tweetEls on
UpdateTweetsLoop(w, tweetEls, k, seeded, ok) ==
    IF k > Len(tweetEls) THEN w
    ELSE LET el == tweetEls[k]
             tweetId == ExtractTweetId(el)
             w1 == [w EXCEPT !.op.seen = @ \cup {el.item}]
         IN IF tweetId = Null
            THEN Continue(w1, tweetEls, k, seeded, ok)
            ELSE IF tweetId \in w1.scraper.processedTweetIds
            THEN UpdateTweetsLoop(KnownId(w1, el, tweetId, seeded),
                                  tweetEls, k + 1, seeded, ok)
            ELSE IF tweetId = w1.scraper.stopAtTweetId
            THEN StopHere(w1, ok)
            ELSE LET tweetData == ExtractTweetData(el, tweetId, mediaMap)
                 IN IF tweetData = <<>>
                    THEN Continue(w1, tweetEls, k, seeded, ok)
                    ELSE UpdateTweetsLoop(Capture(w1, tweetId, tweetData[1]),
                                          tweetEls, k + 1, seeded, ok)

\* document.querySelectorAll('article[data-testid="tweet"]'), document order
RECURSIVE ArticlesFrom(_, _)
ArticlesFrom(d, i) ==
    IF i > NumItems THEN <<>>
    ELSE (IF d[i] = "absent" THEN <<>> ELSE <<Element(i, d[i])>>)
             \o ArticlesFrom(d, i + 1)

QuerySelectorAll(d) == ArticlesFrom(d, 1)

\* updateTweets(seedEls): seedEls is [given |-> FALSE] for the call without
\* argument and [given |-> TRUE, els |-> ...] for the call with an array
UpdateTweets(w, seedEls, ok) ==
    LET tweetEls == IF seedEls.given THEN seedEls.els ELSE QuerySelectorAll(dom)
    IN UpdateTweetsLoop([w EXCEPT !.op.scanned = ~seedEls.given],
                        tweetEls, 1, seedEls.given, ok)

\* the constructor without its loop over skipTweetIds
MarkSkippedNot(fields) == fields

\* the constructor's loop over skipTweetIds:
\* for (const tid of this.skipTweetIds) this.processedTweetIds.add(tid)
MarkSkipped(fields) ==
    [fields EXCEPT !.processedTweetIds = @ \cup fields.skipTweetIds]

\* the constructor, called with the options and the outcome of an export
Constructor(options, counting, tracing, ok) ==
    LET fields ==
            [stopAtTweetId |-> options.stopAtTweetId,
             skipTweetIds |-> options.skipTweetIds,
             tweets |-> <<>>,
             processedTweetIds |-> {},
             batchIndex |-> 0,
             stuckCount |-> 0,
             previousHeight |-> 0,
             scrollTimer |-> FALSE,
             observer |-> FALSE,
             hud |-> [attached |-> FALSE, text |-> <<0, 0>>]]
        \* initHud
        withHud == [fields EXCEPT !.hud = [attached |-> TRUE, text |-> <<0, 0>>]]
        marked == MarkSkipped(withHud)
        \* initObserver, initScroll
        started == [marked EXCEPT !.observer = TRUE, !.scrollTimer = TRUE]
    IN UpdateTweets(World(started, <<>>,
                          [cleanups |-> 0,     \* runs of cleanup
                           \* <<tweets>> at the first stopAtTweetId encounter
                           stopSnap |-> <<>>,
                           \* whether this session counts its stalled ticks
                           counting |-> counting,
                           \* whether this session keeps the history of its
                           \* requests
                           tracing |-> tracing,
                           \* ticks in a row that measured an unchanged height
                           run |-> 0],
                          NewOp),
                    [given |-> FALSE], ok)

\* stash keeping only the latest URL of a media identifier
StashLatest(map, url) ==
    LET mediaId == MatchVideoId(url)
    IN IF mediaId = Null THEN map
       ELSE [m \in DOMAIN map \cup {mediaId} |->
                IF m = mediaId THEN <<url>> ELSE map[m]]

\* stash
Stash(map, url) ==
    LET mediaId == MatchVideoId(url)
    IN IF mediaId = Null THEN map
       ELSE [m \in DOMAIN map \cup {mediaId} |->
                IF m = mediaId
                THEN (IF m \in DOMAIN map THEN map[m] ELSE <<>>) \o <<url>>
                ELSE map[m]]

\* the patched window.fetch and XMLHttpRequest.prototype.open
PatchedRequest(map, url) ==
    IF url.host = "video.twimg.com" THEN Stash(map, url) ELSE map

\* the patched functions passing on only what they did not stash
ForwardUnlessMedia(url) == IF url.host = "video.twimg.com" THEN <<>> ELSE <<url>>

\* return _fetch(...args) and return _open.apply(this, [method, url, ...rest]):
\* the calls of the original function made for one call of the patched one
Forward(url) == <<url>>

\* the escalation test with the limit off by one
StuckLimitReachedEarly(stuckCount) == stuckCount >= 2

\* if (this.stuckCount >= 3), evaluated after this.stuckCount++
StuckLimitReached(stuckCount) == stuckCount >= 3

\* the stall test on the height of this tick alone, which scrollBy leaves
StuckSameTick(currentHeight, previousHeight) == currentHeight = currentHeight

\* if (currentHeight === this.previousHeight)
Stuck(currentHeight, previousHeight) == currentHeight = previousHeight

\* the threshold test that every batch passes, the empty one included
BatchFullAlways(tweets) == Len(tweets) >= 0

\* the threshold test with a strict comparison
BatchFullStrict(tweets) == Len(tweets) > BatchSize

\* if (this.tweets.length >= this.batchSize)
BatchFull(tweets) == Len(tweets) >= BatchSize

\* the setInterval callback of initScroll
ScrollTick(w, currentHeight, ok) ==
    LET sc == w.scraper
        stuck == Stuck(currentHeight, sc.previousHeight)
        escalate == stuck /\ StuckLimitReached(sc.stuckCount + 1)
        stuckCount == IF stuck /\ ~escalate THEN sc.stuckCount + 1 ELSE 0
        w1 == [w EXCEPT !.scraper.stuckCount = stuckCount,
                        !.scraper.previousHeight = currentHeight,
                        !.op.scrolls = IF escalate
                                       THEN <<ScrollStep, ScrollStep * 3>>
                                       ELSE <<ScrollStep>>,
                        !.session.run = IF ~w.session.counting THEN 0
                                        ELSE IF stuck THEN @ + 1 ELSE 0]
    IN IF BatchFull(sc.tweets)
       THEN [DownloadTweetsAsJson(w1, sc.tweets, "threshold", ok)
                EXCEPT !.scraper.tweets = <<>>,
                       !.scraper.batchIndex = @ + 1,
                       !.op.failed = IF ok THEN <<>> ELSE sc.tweets]
       ELSE w1

\* the MutationObserver callback over the articles of the added nodes
RECURSIVE ObserverCallback(_, _, _, _)
ObserverCallback(w, arts, k, ok) ==
    IF k > Len(arts) THEN w
    ELSE ObserverCallback(
             UpdateTweets(w, [given |-> TRUE, els |-> <<arts[k]>>], ok),
             arts, k + 1, ok)

(***************************************************************************)
(* The state machine.                                                      *)
(***************************************************************************)
Here == World(scraper, downloads, session, NewOp)

Becomes(w) ==
    /\ scraper' = w.scraper
    /\ downloads' = w.downloads
    /\ session' = w.session
    /\ op' = w.op

\* the outcomes of the exports of one handler: they succeed, or they throw
\* inside the try of downloadTweetsAsJson (one outcome where none can happen)
Outcomes(canExport) == IF canExport THEN BOOLEAN ELSE {TRUE}

\* new TweetScraper(options) on a page whose articles are rendered or not
\* and in which no media request was observed yet
Constructed(optionSet, counting, tracing) ==
    /\ dom \in {d \in [Items -> AllStages] : \A i \in Items : d[i] \in BasicStages(i)}
    /\ scrollHeight = 1
    /\ mediaMap = <<>>
    /\ \E options \in optionSet, ok \in Outcomes(TRUE) :
          LET w == Constructor(options, counting, tracing, ok)
          IN /\ scraper = w.scraper
             /\ downloads = w.downloads
             /\ session = w.session
             /\ op = w.op

Init == Constructed(Options, FALSE, FALSE)

\* the host page renders or removes an item
Render ==
    /\ \E i \in Items :
          \E st \in BasicStages(i) :
              /\ st # dom[i]
              /\ dom' = [dom EXCEPT ![i] = st]
    /\ op' = NewOp
    /\ UNCHANGED <<scrollHeight, mediaMap, scraper, downloads, session>>

\* the host page renders an item without its <time>, or completes it
RenderPartial ==
    /\ \E i \in PartialItems :
          \/ dom[i] = "absent" /\ dom' = [dom EXCEPT ![i] = "partial"]
          \/ dom[i] = "partial" /\ dom' = [dom EXCEPT ![i] = "bare"]
    /\ op' = NewOp
    /\ UNCHANGED <<scrollHeight, mediaMap, scraper, downloads, session>>

\* the host page injects media blocks into a rendered item, or removes them
MediaLoad ==
    /\ \E i \in Items :
          /\ dom[i] \in MediaStages(i)
          /\ \E st \in MediaStages(i) :
                /\ st # dom[i]
                /\ dom' = [dom EXCEPT ![i] = st]
    /\ op' = NewOp
    /\ UNCHANGED <<scrollHeight, mediaMap, scraper, downloads, session>>

\* the document grows or shrinks
Resize ==
    /\ \E h \in Heights : h # scrollHeight /\ scrollHeight' = h
    /\ op' = NewOp
    /\ UNCHANGED <<dom, mediaMap, scraper, downloads, session>>

\* the host page issues a request through fetch or XMLHttpRequest
Request ==
    /\ \E url \in RequestUrls :
          /\ mediaMap' = PatchedRequest(mediaMap, url)
          /\ \A m \in DOMAIN mediaMap' : Len(mediaMap'[m]) <= MaxStash
          /\ op' = IF session.tracing
                   THEN [NewOp EXCEPT !.requested = <<url>>,
                                      !.forwarded = Forward(url)]
                   ELSE NewOp
    /\ UNCHANGED <<dom, scrollHeight, scraper, downloads, session>>

\* the scroll timer fires
Tick ==
    /\ scraper.scrollTimer
    /\ ~(scrollHeight = scraper.previousHeight /\ session.run >= MaxRun)
    /\ \E ok \in Outcomes(BatchFull(scraper.tweets)) :
          Becomes(ScrollTick(Here, scrollHeight, ok))
    /\ UNCHANGED <<dom, scrollHeight, mediaMap>>

\* the observer delivers a batch of added nodes that lie in rendered articles.
\* Without a stop id nothing ends a callback early or disconnects the observer,
\* so a callback over n nodes is n callbacks over one node each.
Mutation ==
    /\ scraper.observer
    /\ \E n \in 1..(IF scraper.stopAtTweetId = Null THEN 1 ELSE MaxNodes) :
          \E nodes \in [1..n -> {i \in Items : dom[i] # "absent"}],
             ok \in Outcomes(scraper.stopAtTweetId # Null) :
              Becomes(ObserverCallback(
                          Here,
                          [k \in 1..n |-> Element(nodes[k], dom[nodes[k]])],
                          1, ok))
    /\ UNCHANGED <<dom, scrollHeight, mediaMap>>

\* console call scraper.updateTweets()
Scan ==
    /\ session.cleanups < MaxCleanups
    /\ \E ok \in Outcomes(scraper.stopAtTweetId # Null) :
          Becomes(UpdateTweets(Here, [given |-> FALSE], ok))
    /\ UNCHANGED <<dom, scrollHeight, mediaMap>>

\* console call scraper.cleanup()
Stop ==
    /\ session.cleanups < MaxCleanups
    /\ \E ok \in Outcomes(Len(scraper.tweets) > 0) : Becomes(Cleanup(Here, ok))
    /\ UNCHANGED <<dom, scrollHeight, mediaMap>>

\* console call clearInterval(scraper.scrollTimer)
ClearIntervalCall ==
    /\ scraper.scrollTimer
    /\ Becomes([Here EXCEPT !.scraper.scrollTimer = FALSE])
    /\ UNCHANGED <<dom, scrollHeight, mediaMap>>

\* a session on a feed of text items
Next ==
    \/ Render
    \/ RenderPartial
    \/ Tick
    \/ Mutation
    \/ Scan
    \/ Stop
    \/ ClearIntervalCall

Spec == Init /\ [][Next]_vars

\* a session on a page that does nothing but resize, its stalls counted
InitScroll == Constructed(Options, TRUE, FALSE)

NextScroll ==
    \/ Resize
    \/ Tick
    \/ ClearIntervalCall

SpecScroll == InitScroll /\ [][NextScroll]_vars

\* a session on a feed whose items load media
MediaOptions == {[stopAtTweetId |-> Null, skipTweetIds |-> {}]}

InitMedia == Constructed(MediaOptions, FALSE, FALSE)

NextMedia ==
    \/ Render
    \/ MediaLoad
    \/ Request
    \/ Mutation
    \/ Scan

SpecMedia == InitMedia /\ [][NextMedia]_vars

\* a session whose requests are traced; the items rendered at the start
\* stay, load media, and are met again by the observer
InitNet == Constructed(MediaOptions, FALSE, TRUE)

NextNet ==
    \/ MediaLoad
    \/ Request
    \/ Tick
    \/ Mutation
    \/ Stop

SpecNet == InitNet /\ [][NextNet]_vars

(***************************************************************************)
(* The earlier variant of the class, unnamed/part_000.  Its constructor,   *)
(* initHud, updateHud, initObserver, initScroll, extractTweetId,           *)
(* extractInteractionData, downloadTweetsAsJson and cleanup have the text  *)
(* of bookmark-scraper-v2.js; it has no mediaMap, its extractMedia and     *)
(* extractTweetData are older, and its updateTweets calls                  *)
(* this.enrichWithVideoFromAPI, which no class and no prototype defines.   *)
(***************************************************************************)
\* extractMedia: every matched img counts as an image; the pattern of the
\* background images asks for a backslash after "url" and matches no
\* url("...") value, so bgImgs is empty
Part000_ExtractMedia(root) ==
    LET imgs == root.imgs
        bgImgs == <<>>
    IN [images |-> Dedup(imgs \o bgImgs), videos |-> root.vsrc]

\* extractTweetData: <<>> for null, <<record>> otherwise
Part000_ExtractTweetData(el, tweetId) ==
    IF ~el.hasTime THEN <<>>
    ELSE LET endsWithId(h) == h.query = "" /\ h.path # <<>>
                                 /\ h.path[Len(h.path)] = tweetId
             exact == SelectSeq(el.links, endsWithId)
             \* the fallback selector .css-175oi2r.r-18u37iz.r-1q142lx a
             \* matches nothing in the articles of this page
             postUrl == IF exact # <<>> THEN Head(exact) ELSE NoHref
             media == Part000_ExtractMedia(el)
         IN <<[tweetId |-> tweetId,
               authorName |-> el.author,
               tweetText |-> el.text,
               timeISO |-> el.datetime,
               postUrl |-> postUrl,
               interaction |-> ExtractInteractionData(el),
               images |-> media.images,
               videos |-> media.videos]>>

\* this.enrichWithVideoFromAPI(tweetData): the property is undefined, the
\* call throws TypeError
Part000_EnrichWithVideoFromAPI(w, tweetData) == [w EXCEPT !.op.raised = TRUE]

\* the late-media branch of updateTweets on the record at index k
Part000_LateMedia(w, k, el) ==
    LET media == Part000_ExtractMedia(el)
        already == w.scraper.tweets[k]
        images == IF Len(media.images) > 0 /\ Len(already.images) = 0
                  THEN media.images ELSE already.images
        videos == IF Len(media.videos) > 0 /\ Len(already.videos) = 0
                  THEN media.videos ELSE already.videos
    IN [w EXCEPT !.scraper.tweets[k].images = images,
                 !.scraper.tweets[k].videos = videos,
                 !.op.reconciled = @ \cup {already}]

\* the loop of updateTweets from element k of tweetEls on; an exception
\* leaves the loop and the method
RECURSIVE Part000_UpdateTweetsLoop(_, _, _, _, _)
Part000_UpdateTweetsLoop(w, tweetEls, k, seeded, ok) ==
    IF k > Len(tweetEls) THEN w
    ELSE LET el == tweetEls[k]
             tweetId == ExtractTweetId(el)
             w1 == [w EXCEPT !.op.seen = @ \cup {el.item}]
         IN IF tweetId = Null
            THEN Part000_UpdateTweetsLoop(w1, tweetEls, k + 1, seeded, ok)
            ELSE IF tweetId \in w1.scraper.processedTweetIds
            THEN LET a == FindTweet(w1.scraper.tweets, tweetId)
                 IN Part000_UpdateTweetsLoop(
                        IF seeded /\ a # 0 THEN Part000_LateMedia(w1, a, el)
                        ELSE w1,
                        tweetEls, k + 1, seeded, ok)
            ELSE IF tweetId = w1.scraper.stopAtTweetId
            THEN StopHere(w1, ok)
            ELSE LET tweetData == Part000_ExtractTweetData(el, tweetId)
                 IN IF tweetData = <<>>
                    THEN Part000_UpdateTweetsLoop(w1, tweetEls, k + 1, seeded, ok)
                    ELSE LET w2 == Part000_EnrichWithVideoFromAPI(
                                       w1, tweetData[1])
                         IN IF w2.op.raised THEN w2
                            ELSE Part000_UpdateTweetsLoop(
                                     Capture(w2, tweetId, tweetData[1]),
                                     tweetEls, k + 1, seeded, ok)

\* updateTweets(seedEls = null)
Part000_UpdateTweets(w, seedEls, ok) ==
    LET tweetEls == IF seedEls.given THEN seedEls.els ELSE QuerySelectorAll(dom)
    IN Part000_UpdateTweetsLoop([w EXCEPT !.op.scanned = ~seedEls.given],
                                tweetEls, 1, seedEls.given, ok)

\* the constructor; an exception of its last statement leaves the timer
\* and the observer it has started
Part000_Constructor(options, ok) ==
    LET fields ==
            [stopAtTweetId |-> options.stopAtTweetId,
             skipTweetIds |-> options.skipTweetIds,
             tweets |-> <<>>,
             processedTweetIds |-> {},
             batchIndex |-> 0,
             stuckCount |-> 0,
             previousHeight |-> 0,
             scrollTimer |-> FALSE,
             observer |-> FALSE,
             hud |-> [attached |-> FALSE, text |-> <<0, 0>>]]
        withHud == [fields EXCEPT !.hud = [attached |-> TRUE, text |-> <<0, 0>>]]
        marked == [withHud EXCEPT !.processedTweetIds =
                                      @ \cup withHud.skipTweetIds]
        started == [marked EXCEPT !.observer = TRUE, !.scrollTimer = TRUE]
    IN Part000_UpdateTweets(
           World(started, <<>>,
                 [cleanups |-> 0, stopSnap |-> <<>>, counting |-> FALSE,
                  tracing |-> FALSE, run |-> 0],
                 NewOp),
           [given |-> FALSE], ok)

\* the MutationObserver callback over the articles of the added nodes; an
\* exception of updateTweets leaves the callback
RECURSIVE Part000_ObserverCallback(_, _, _, _)
Part000_ObserverCallback(w, arts, k, ok) ==
    IF k > Len(arts) \/ w.op.raised THEN w
    ELSE Part000_ObserverCallback(
             Part000_UpdateTweets(w, [given |-> TRUE, els |-> <<arts[k]>>], ok),
             arts, k + 1, ok)

\* new TweetScraper(options) of part_000 on a page whose articles are
\* rendered or not
InitPart000 ==
    /\ dom \in {d \in [Items -> AllStages] : \A i \in Items : d[i] \in BasicStages(i)}
    /\ scrollHeight = 1
    /\ mediaMap = <<>>
    /\ \E options \in Options, ok \in Outcomes(TRUE) :
          LET w == Part000_Constructor(options, ok)
          IN /\ scraper = w.scraper
             /\ downloads = w.downloads
             /\ session = w.session
             /\ op = w.op

\* the observer of part_000 delivers a batch of added nodes that lie in
\* rendered articles
Part000_Mutation ==
    /\ scraper.observer
    /\ \E n \in 1..MaxNodes :
          \E nodes \in [1..n -> {i \in Items : dom[i] # "absent"}],
             ok \in Outcomes(scraper.stopAtTweetId # Null) :
              Becomes(Part000_ObserverCallback(
                          Here,
                          [k \in 1..n |-> Element(nodes[k], dom[nodes[k]])],
                          1, ok))
    /\ UNCHANGED <<dom, scrollHeight, mediaMap>>

\* a session of part_000 on a feed of text items
NextPart000 ==
    \/ Render
    \/ RenderPartial
    \/ Resize
    \/ Tick
    \/ Part000_Mutation

SpecPart000 == InitPart000 /\ [][NextPart000]_vars

(***************************************************************************)
(* Vocabulary of the properties.                                           *)
(***************************************************************************)
\* the item whose permalink carries the id
ItemOf(id) == CHOOSE i \in Items : ToString(i) = id

\* the calls of downloadTweetsAsJson of one kind, in order
Calls(kind) == LET isKind(d) == d.kind = kind IN SelectSeq(downloads, isKind)

RECURSIVE RecordsOf(_)
RecordsOf(calls) ==
    IF calls = <<>> THEN <<>> ELSE Head(calls).batch \o RecordsOf(Tail(calls))

IdsOf(batch) == {batch[k].tweetId : k \in 1..Len(batch)}

\* the media identifiers whose thumbnail item i shows in its current stage
ThumbsShown(i) ==
    {m \in MediaIds : ThumbUrl(m) \in Range(Element(i, dom[i]).imgs)}

\* the URLs stashed under the media identifier
Stashed(m) == IF m \in DOMAIN mediaMap THEN Range(mediaMap[m]) ELSE {}

\* position of a step in the last cleanup run, 0 when it did not happen
StepAt(name) ==
    IF name \in Range(op.steps)
    THEN CHOOSE k \in 1..Len(op.steps) : op.steps[k] = name
    ELSE 0

(***************************************************************************)
(* C1: no two records share a tweetId across the pending batch and the     *)
(* batches handed to a threshold flush: an id captured once is never       *)
(* captured into a second record, also after its batch was flushed.        *)
(***************************************************************************)
C1_UniqueTweetIds ==
    LET recs == scraper.tweets \o RecordsOf(Calls("threshold"))
    IN \A a, b \in 1..Len(recs) : a # b => recs[a].tweetId # recs[b].tweetId

\* an item whose record was flushed is met again while another is pending
C1_FlushedItemMetAgain ==
    /\ scraper.tweets # <<>>
    /\ \E i \in op.seen : ToString(i) \in IdsOf(RecordsOf(Calls("threshold")))

(***************************************************************************)
(* C2: after the failed threshold flush of a scroll tick, tweets still     *)
(* holds every record it held before the tick.                             *)
(***************************************************************************)
C2_FailedFlushKeepsBatch ==
    op.failed # <<>> => scraper.tweets = op.failed

(***************************************************************************)
(* C3: when updateTweets meets stopAtTweetId, no later element of that     *)
(* invocation is processed, and the session makes exactly one final flush, *)
(* of exactly the records pending at that moment.                          *)
(***************************************************************************)
C3_StopFlushesOnce ==
    /\ (op.scanned /\ op.stopped) =>
           \A i \in op.seen : i <= ItemOf(scraper.stopAtTweetId)
    /\ (session.stopSnap # <<>> /\ session.stopSnap[1] # <<>>) =>
           /\ Len(Calls("final")) = 1
           /\ Calls("final")[1].batch = session.stopSnap[1]

(***************************************************************************)
(* C4: once cleanup has run, nothing changes tweets or exports a batch,    *)
(* the rest of the observer callback that was running included.            *)
(***************************************************************************)
C4_NoWorkAfterCleanup == ~op.workAfterStop

(***************************************************************************)
(* C5: when cleanup runs more than once, the pending records are exported  *)
(* at most once in total: no record is in two successful final exports.    *)
(***************************************************************************)
C5_CleanupExportsOnce ==
    LET finals == Calls("final")
    IN \A a, b \in 1..Len(finals) :
           (a < b /\ finals[a].ok /\ finals[b].ok) =>
               IdsOf(finals[a].batch) \cap IdsOf(finals[b].batch) = {}

(***************************************************************************)
(* C6, as claimed: cleanup cancels the scroll timer, then disconnects the  *)
(* observer, and only then flushes the pending batch.                      *)
(***************************************************************************)
C6_TeardownBeforeFlush ==
    (op.cleaned /\ StepAt("flush") # 0) =>
        /\ StepAt("clearInterval") < StepAt("disconnect")
        /\ StepAt("disconnect") < StepAt("flush")

(***************************************************************************)
(* C6, as amended: cleanup first flushes the pending batch (when it is not *)
(* empty), then cancels the scroll timer, then disconnects the observer.   *)
(***************************************************************************)
C6_FlushBeforeTeardown ==
    op.cleaned =>
        /\ StepAt("clearInterval") # 0
        /\ StepAt("clearInterval") < StepAt("disconnect")
        /\ StepAt("flush") # 0 => StepAt("flush") < StepAt("clearInterval")
        /\ ~scraper.scrollTimer
        /\ ~scraper.observer

\* a cleanup that had records to flush
C6_CleanupFlushed == op.cleaned /\ StepAt("flush") # 0

(***************************************************************************)
(* C7: a record captured with empty videos, whose thumbnail's media        *)
(* identifier has captures in mediaMap by the time a mutation-triggered    *)
(* updateTweets meets the item again, gets the captured URLs as videos.    *)
(***************************************************************************)
C7_LateCaptureFillsVideos ==
    \A r \in op.reconciled :
        LET k == FindTweet(scraper.tweets, r.tweetId)
        IN (r.videos = <<>> /\ k # 0) =>
               \A m \in ThumbsShown(ItemOf(r.tweetId)) :
                   Stashed(m) \subseteq Range(scraper.tweets[k].videos)

(***************************************************************************)
(* C8: every URL stashed under media identifier m before an item whose     *)
(* thumbnail embeds m is first extracted is in the videos of the record    *)
(* created for the item, whatever the number and order of the captures.    *)
(***************************************************************************)
C8_StashedBeforeExtraction ==
    \A id \in op.captured :
        LET k == FindTweet(scraper.tweets, id)
        IN /\ k # 0
           /\ \A m \in ThumbsShown(ItemOf(id)) :
                  Stashed(m) \subseteq Range(scraper.tweets[k].videos)

\* a record created for a thumbnail under which two URLs were stashed
C8_CapturedAfterTwoStashes ==
    \E id \in op.captured :
        \E m \in ThumbsShown(ItemOf(id)) : Cardinality(Stashed(m)) = 2

(***************************************************************************)
(* C9: an id of skipTweetIds is never the tweetId of a record of the       *)
(* pending batch or of any batch handed to downloadTweetsAsJson.           *)
(***************************************************************************)
C9_SkippedNeverCaptured ==
    \A id \in scraper.skipTweetIds :
        id \notin IdsOf(scraper.tweets) \cup IdsOf(RecordsOf(downloads))

\* updateTweets has met the fully rendered item of a skipped id
C9_SkippedItemMet ==
    \E i \in op.seen :
        /\ ToString(i) \in scraper.skipTweetIds
        /\ dom[i] = "bare"
        /\ ExtractTweetData(Element(i, dom[i]), ToString(i), mediaMap) # <<>>

(***************************************************************************)
(* C10: a tick escalates, with one extra scroll of 3 x scrollStep, exactly *)
(* when it is the third, sixth, ... tick in a row that measured an         *)
(* unchanged height; it then resets stuckCount to 0, as does a tick that   *)
(* measured a different height.                                            *)
(***************************************************************************)
C10_EscalateOnThirdStall ==
    op.scrolls # <<>> =>
        LET third == session.run > 0 /\ session.run % 3 = 0
        IN /\ op.scrolls = IF third THEN <<ScrollStep, 3 * ScrollStep>>
                           ELSE <<ScrollStep>>
           /\ scraper.stuckCount = session.run % 3

\* the third stalled tick in a row, which escalated
C10_ThirdStallEscalated ==
    /\ session.run = 3
    /\ op.scrolls = <<ScrollStep, 3 * ScrollStep>>
    /\ scraper.stuckCount = 0

(***************************************************************************)
(* C11: a scroll tick that finds at least batchSize records in tweets      *)
(* hands the whole batch to one export, empties tweets and adds exactly 1  *)
(* to batchIndex; a tick that finds fewer exports nothing and leaves       *)
(* tweets and batchIndex as they were.                                     *)
(***************************************************************************)
C11_ThresholdFlush ==
    [][op'.scrolls # <<>> =>
          IF Len(scraper.tweets) >= BatchSize
          THEN /\ Len(downloads') = Len(downloads) + 1
               /\ SubSeq(downloads', 1, Len(downloads)) = downloads
               /\ downloads'[Len(downloads')].kind = "threshold"
               /\ downloads'[Len(downloads')].batch = scraper.tweets
               /\ scraper'.tweets = <<>>
               /\ scraper'.batchIndex = scraper.batchIndex + 1
          ELSE /\ downloads' = downloads
               /\ scraper'.tweets = scraper.tweets
               /\ scraper'.batchIndex = scraper.batchIndex]_vars

\* a tick has flushed a second batch, and its export succeeded
C11_SecondBatchFlushed ==
    /\ op.scrolls # <<>>
    /\ scraper.batchIndex = 2
    /\ downloads # <<>>
    /\ downloads[Len(downloads)].kind = "threshold"
    /\ downloads[Len(downloads)].ok
    /\ Len(downloads[Len(downloads)].batch) = BatchSize

(***************************************************************************)
(* C12: every step that exports a batch, be it the threshold flush of a    *)
(* tick or the final flush of termination, leaves tweets empty and         *)
(* batchIndex greater than before; no step decreases batchIndex.           *)
(***************************************************************************)
C12_FlushEmptiesAndCounts ==
    [][/\ Len(downloads') > Len(downloads) =>
              /\ scraper'.tweets = <<>>
              /\ scraper'.batchIndex > scraper.batchIndex
       /\ scraper'.batchIndex >= scraper.batchIndex]_vars

\* the media extractMedia finds in the rendered article of the id
MediaShown(id) == ExtractMedia(Element(ItemOf(id), dom[ItemOf(id)]))

(***************************************************************************)
(* C13: for every record of tweets, a step never changes images once it is *)
(* non-empty and never changes videos once it is non-empty; a step that    *)
(* changes one of the two replaces an empty field by exactly the non-empty *)
(* set extracted from the article, without merging.                        *)
(***************************************************************************)
C13_FirstCaptureWins ==
    [][\A k \in 1..Len(scraper.tweets) :
          (k <= Len(scraper'.tweets)
             /\ scraper'.tweets[k].tweetId = scraper.tweets[k].tweetId) =>
              LET a == scraper.tweets[k]
                  b == scraper'.tweets[k]
              IN /\ a.images # <<>> => b.images = a.images
                 /\ a.videos # <<>> => b.videos = a.videos
                 /\ b.images # a.images =>
                        b.images # <<>> /\ b.images = MediaShown(a.tweetId).images
                 /\ b.videos # a.videos =>
                        b.videos # <<>> /\ b.videos = MediaShown(a.tweetId).videos
      ]_vars

\* reconciliation met a record with videos while the article shows other ones
C13_OtherVideosShown ==
    \E r \in op.reconciled :
        /\ r.videos # <<>>
        /\ MediaShown(r.tweetId).videos # <<>>
        /\ MediaShown(r.tweetId).videos # r.videos

(***************************************************************************)
(* C14: a step leaves tweetId, authorName, tweetText, timeISO, postUrl and *)
(* interaction of every record that stays in tweets as they were; meeting  *)
(* the item again can change images and videos only.                       *)
(***************************************************************************)
C14_RecordFrame ==
    [][\A k \in 1..Len(scraper.tweets) :
          (k <= Len(scraper'.tweets)
             /\ scraper'.tweets[k].tweetId = scraper.tweets[k].tweetId) =>
              LET a == scraper.tweets[k]
                  b == scraper'.tweets[k]
              IN /\ b.authorName = a.authorName
                 /\ b.tweetText = a.tweetText
                 /\ b.timeISO = a.timeISO
                 /\ b.postUrl = a.postUrl
                 /\ b.interaction = a.interaction
                 /\ DOMAIN b = DOMAIN a
      ]_vars

\* reconciliation changed the media of a record whose article shows other
\* counters than the record holds
C14_MetAgainWithOtherCounters ==
    \E r \in op.reconciled :
        LET k == FindTweet(scraper.tweets, r.tweetId)
            el == Element(ItemOf(r.tweetId), dom[ItemOf(r.tweetId)])
        IN /\ k # 0
           /\ ExtractInteractionData(el) # r.interaction
           /\ scraper.tweets[k].images # r.images

(***************************************************************************)
(* C15: at the end of every tick, scan and observer callback the HUD shows *)
(* the current batchIndex and the current length of tweets, also right     *)
(* after a threshold flush.                                                *)
(***************************************************************************)
C15_HudIsCurrent ==
    (op.scrolls # <<>> \/ op.scanned \/ op.seen # {}) =>
        scraper.hud.text = <<scraper.batchIndex, Len(scraper.tweets)>>

\* the URL is one stash keeps: on video.twimg.com, with a numeric
\* identifier behind ext_tw_video/
MediaPattern(url) ==
    /\ url.host = "video.twimg.com"
    /\ url.dir = "ext_tw_video"
    /\ url.id \in DigitStrings

(***************************************************************************)
(* C16: every request made through the patched fetch or XMLHttpRequest     *)
(* open is passed on to the original function exactly once and with the    *)
(* same URL, media request or not, and a request whose URL does not match  *)
(* the media pattern leaves mediaMap as it was.                            *)
(***************************************************************************)
C16_InterceptionTransparent ==
    [][op'.requested # <<>> =>
          /\ op'.forwarded = op'.requested
          /\ ~MediaPattern(op'.requested[1]) => mediaMap' = mediaMap]_vars

\* a request that does not match, made on the media host after a stash
C16_OtherMediaHostRequest ==
    /\ op.requested # <<>>
    /\ op.requested[1].host = "video.twimg.com"
    /\ ~MediaPattern(op.requested[1])
    /\ mediaMap # <<>>

(***************************************************************************)
(* C17: processedTweetIds holds every id of skipTweetIds in every state    *)
(* from construction on, and no step removes an id from it.                *)
(***************************************************************************)
C17_KnownIdsOnlyGrow ==
    /\ [](scraper.skipTweetIds \subseteq scraper.processedTweetIds)
    /\ [][scraper.processedTweetIds \subseteq scraper'.processedTweetIds]_vars

\* termination has exported a batch in a session that skips an id and has
\* captured another one
C17_TerminatedWithKnownIds ==
    /\ scraper.skipTweetIds # {}
    /\ scraper.processedTweetIds # scraper.skipTweetIds
    /\ op.cleaned
    /\ Calls("final") # <<>>

(***************************************************************************)
(* C18: for every media identifier of mediaMap, the URL sequence a step    *)
(* leaves has the sequence it found as a prefix: no request, extraction,   *)
(* flush or termination removes an identifier or a URL.                    *)
(***************************************************************************)
C18_MediaMapAppendOnly ==
    [][\A m \in DOMAIN mediaMap :
          /\ m \in DOMAIN mediaMap'
          /\ Len(mediaMap'[m]) >= Len(mediaMap[m])
          /\ SubSeq(mediaMap'[m], 1, Len(mediaMap[m])) = mediaMap[m]]_vars

\* a second URL was stashed under an identifier, after a threshold flush,
\* a reconciliation of the item that shows its thumbnail, and termination
C18_StashedAgainAfterUse ==
    /\ op.requested # <<>>
    /\ MediaPattern(op.requested[1])
    /\ Cardinality(Stashed("7")) = 2
    /\ Calls("threshold") # <<>>
    /\ session.cleanups > 0
    /\ \E i \in Items : "7" \in ThumbsShown(i)

(***************************************************************************)
(* C19: after clearInterval(scraper.scrollTimer), the stop command of the  *)
(* README, no observer callback captures a tweet.  The timer cleared while *)
(* the observer is connected is the state only that command leaves.        *)
(***************************************************************************)
C19_ReadmeStopStops ==
    (~scraper.scrollTimer /\ scraper.observer /\ ~op.scanned) =>
        op.captured = {}

\* the rendered article of item i yields no id or no record
Malformed(i) ==
    LET el == Element(i, dom[i])
    IN /\ dom[i] # "absent"
       /\ \/ ExtractTweetId(el) = Null
          \/ ExtractTweetData(el, ExtractTweetId(el), mediaMap) = <<>>

\* the document without its malformed articles
WithoutMalformed == [i \in Items |-> IF Malformed(i) THEN "absent" ELSE dom[i]]

(***************************************************************************)
(* C20: a scan leaves the object and the exports exactly as the same scan  *)
(* of the document without its malformed articles would, and an invocation *)
(* that meets malformed articles only changes nothing.                     *)
(***************************************************************************)
C20_MalformedSkipped ==
    [][/\ op'.scanned =>
              \E ok \in BOOLEAN :
                  LET w == UpdateTweetsLoop(
                               [Here EXCEPT !.op.scanned = TRUE],
                               QuerySelectorAll(WithoutMalformed), 1, FALSE, ok)
                  IN scraper' = w.scraper /\ downloads' = w.downloads
       /\ (op'.seen # {} /\ \A i \in op'.seen : Malformed(i)) =>
              scraper' = scraper /\ downloads' = downloads]_vars

\* a scan met a malformed article and captured the item behind it
C20_CapturedBehindMalformed ==
    /\ op.scanned
    /\ \E i \in op.seen :
          /\ Malformed(i)
          /\ \E j \in op.seen : j > i /\ ToString(j) \in op.captured

\* the rendered article of item i carries a known id that has no record
\* in tweets
KnownWithoutRecord(i) ==
    LET id == ExtractTweetId(Element(i, dom[i]))
    IN /\ dom[i] # "absent"
       /\ id \in scraper.processedTweetIds
       /\ FindTweet(scraper.tweets, id) = 0

(***************************************************************************)
(* C21: an invocation of updateTweets that meets only articles whose id is *)
(* known and has no record in tweets leaves tweets, processedTweetIds,     *)
(* batchIndex and every exported batch as they were.                       *)
(***************************************************************************)
C21_KnownWithoutRecordDiscarded ==
    [][(op'.seen # {} /\ \A i \in op'.seen : KnownWithoutRecord(i)) =>
          /\ scraper'.tweets = scraper.tweets
          /\ scraper'.processedTweetIds = scraper.processedTweetIds
          /\ scraper'.batchIndex = scraper.batchIndex
          /\ downloads' = downloads]_vars

\* an observer callback met an item that shows media now and whose record
\* was exported without any
C21_MediaAfterFlush ==
    /\ ~op.scanned
    /\ \E i \in op.seen :
          /\ KnownWithoutRecord(i)
          /\ MediaShown(ToString(i)).images # <<>>
          /\ \E c \in 1..Len(downloads) :
                /\ downloads[c].kind = "threshold"
                /\ \E k \in 1..Len(downloads[c].batch) :
                      /\ downloads[c].batch[k].tweetId = ToString(i)
                      /\ downloads[c].batch[k].images = <<>>

\* the tick step counts towards the stuck counter: stuckCount++ ran
TickCounted ==
    \/ scraper'.stuckCount = scraper.stuckCount + 1
    \/ op'.scrolls = <<ScrollStep, 3 * ScrollStep>>

(***************************************************************************)
(* C22, as claimed: a tick counts towards the stuck counter exactly when   *)
(* the document height before its advance equals the height after that     *)
(* same advance.  window.scrollBy moves the viewport and leaves the        *)
(* document as it is, so the height after the advance is the height the    *)
(* tick leaves.                                                            *)
(***************************************************************************)
C22_SameAdvanceCompared ==
    [][op'.scrolls # <<>> =>
          (TickCounted <=> scrollHeight = scrollHeight')]_vars

(***************************************************************************)
(* C22, as amended: a tick counts towards the stuck counter exactly when   *)
(* the height it measures before its advance equals previousHeight, the    *)
(* height the tick before it measured before its own advance (0 before the *)
(* first tick); the tick stores its measure as the next previousHeight.    *)
(***************************************************************************)
C22_PreviousTickCompared ==
    [][op'.scrolls # <<>> =>
          /\ TickCounted <=> scrollHeight = scraper.previousHeight
          /\ scraper'.previousHeight = scrollHeight]_vars

\* a tick after the document grew: it did not count, although its advance
\* left the height as it was
C22_TickAfterGrowth ==
    /\ op.scrolls = <<ScrollStep>>
    /\ scraper.stuckCount = 0
    /\ scrollHeight = 2
    /\ scraper.previousHeight = scrollHeight

\* the records of the exports that succeeded
Exported(log) ==
    LET succeeded(d) == d.ok IN Range(RecordsOf(SelectSeq(log, succeeded)))

(***************************************************************************)
(* C23: a batch that has reached batchSize records is exported at the      *)
(* latest by the end of the next tick: when a tick that found at least     *)
(* batchSize records in tweets ends, every one of them is in a batch whose *)
(* export succeeded.                                                       *)
(***************************************************************************)
C23_FullBatchExportedByNextTick ==
    [][(op'.scrolls # <<>> /\ Len(scraper.tweets) >= BatchSize) =>
          Range(scraper.tweets) \subseteq Exported(downloads')]_vars

(***************************************************************************)
(* C24, as claimed: no batch handed to an export holds more than batchSize *)
(* records.                                                                *)
(***************************************************************************)
C24_BatchAtMostBatchSize ==
    \A c \in 1..Len(downloads) : Len(downloads[c].batch) <= BatchSize

(***************************************************************************)
(* C24, as amended: batchSize is the threshold of the flush and no bound   *)
(* of the batch: a batch exported by a tick holds at least batchSize       *)
(* records, a batch exported by termination holds at least one.            *)
(***************************************************************************)
C24_BatchAtLeastThreshold ==
    \A c \in 1..Len(downloads) :
        IF downloads[c].kind = "threshold"
        THEN Len(downloads[c].batch) >= BatchSize
        ELSE Len(downloads[c].batch) >= 1

\* a tick has exported more than batchSize records in one batch
C24_OversizedBatch ==
    \E c \in 1..Len(downloads) :
        /\ downloads[c].kind = "threshold"
        /\ Len(downloads[c].batch) > BatchSize

(***************************************************************************)
(* C25: in every variant of the class, part_000 included, a handler in     *)
(* which updateTweets takes an element whose id is new (not known, not the *)
(* stop id) and whose extraction yields a record ends without an           *)
(* exception, with the id in processedTweetIds and its record in tweets.   *)
(***************************************************************************)
C25_NewIdCaptured ==
    [][\A i \in op'.seen :
          LET el == Element(i, dom[i])
              tweetId == ExtractTweetId(el)
          IN (/\ tweetId # Null
              /\ tweetId \notin scraper.processedTweetIds
              /\ tweetId # scraper.stopAtTweetId
              /\ Part000_ExtractTweetData(el, tweetId) # <<>>)
             => /\ ~op'.raised
                /\ tweetId \in scraper'.processedTweetIds
                /\ tweetId \in IdsOf(scraper'.tweets)]_vars

(***************************************************************************)
(* C26: the known ids are tested before the stop id.  In a session whose   *)
(* stopAtTweetId is one of its skipTweetIds, meeting that id never         *)
(* terminates: no stop encounter is ever recorded, a handler that met the  *)
(* id has not run cleanup and leaves the timer, the observer and the       *)
(* final exports as they were, and as long as nobody calls cleanup the     *)
(* observer is connected and no final export exists.                       *)
(***************************************************************************)
C26_SkippedStopIdNeverStops ==
    /\ [](scraper.stopAtTweetId \in scraper.skipTweetIds =>
            /\ session.stopSnap = <<>>
            /\ ItemOf(scraper.stopAtTweetId) \in op.seen =>
                  ~op.stopped /\ ~op.cleaned
            /\ session.cleanups = 0 =>
                  scraper.observer /\ Calls("final") = <<>>)
    /\ [][(/\ scraper.stopAtTweetId \in scraper.skipTweetIds
           /\ ItemOf(scraper.stopAtTweetId) \in op'.seen) =>
             /\ scraper'.scrollTimer = scraper.scrollTimer
             /\ scraper'.observer = scraper.observer
             /\ Calls("final")' = Calls("final")]_vars

\* a scan met the skipped stop id, went on behind it and captured the next
\* item, and the timer and the observer are active
C26_ScanPassedSkippedStopId ==
    /\ scraper.stopAtTweetId \in scraper.skipTweetIds
    /\ ItemOf(scraper.stopAtTweetId) \in op.seen
    /\ op.captured # {}
    /\ scraper.scrollTimer
    /\ scraper.observer

(***************************************************************************)
(* C27: the stop tweet is never harvested.  When stopAtTweetId is set, no  *)
(* record of the pending batch and no record of an export carries it, and  *)
(* it is in processedTweetIds only if the options listed it in             *)
(* skipTweetIds; so every handler in which updateTweets meets the id, not  *)
(* skipped, runs the stop sequence again.                                  *)
(***************************************************************************)
C27_StopTweetNeverHarvested ==
    /\ [](scraper.stopAtTweetId # Null =>
            /\ scraper.stopAtTweetId \notin IdsOf(scraper.tweets)
            /\ scraper.stopAtTweetId \notin IdsOf(RecordsOf(downloads))
            /\ scraper.stopAtTweetId \in scraper.processedTweetIds =>
                  scraper.stopAtTweetId \in scraper.skipTweetIds)
    /\ [][\A i \in op'.seen :
            (/\ scraper.stopAtTweetId # Null
             /\ scraper.stopAtTweetId \notin scraper.skipTweetIds
             /\ ExtractTweetId(Element(i, dom[i])) = scraper.stopAtTweetId) =>
                /\ op'.stopped
                /\ op'.cleaned
                /\ session'.cleanups > session.cleanups]_vars

\* the stop id was met after a cleanup, and the stop sequence ran again
C27_StopSequenceRanAgain ==
    /\ scraper.stopAtTweetId # Null
    /\ ItemOf(scraper.stopAtTweetId) \in op.seen
    /\ op.stopped
    /\ session.cleanups >= 2
    /\ scraper.stopAtTweetId \notin scraper.processedTweetIds

(***************************************************************************)
(* C28: a full-document scan (updateTweets without seed elements) keeps    *)
(* every existing record in its place with the images and the videos it    *)
(* had, and reconciles none, whatever media the items show by then.        *)
(***************************************************************************)
C28_ScanLeavesMedia ==
    [][op'.scanned =>
          /\ op'.reconciled = {}
          /\ Len(scraper'.tweets) >= Len(scraper.tweets)
          /\ \A k \in 1..Len(scraper.tweets) :
                /\ scraper'.tweets[k].tweetId = scraper.tweets[k].tweetId
                /\ scraper'.tweets[k].images = scraper.tweets[k].images
                /\ scraper'.tweets[k].videos = scraper.tweets[k].videos]_vars

\* a scan met an item that shows media by now, and the item's record still
\* has no image and no video
C28_ScanMetLateMedia ==
    /\ op.scanned
    /\ \E k \in 1..Len(scraper.tweets) :
          LET i == ItemOf(scraper.tweets[k].tweetId)
              media == ExtractMedia(Element(i, dom[i]))
          IN /\ i \in op.seen
             /\ dom[i] # "absent"
             /\ media.images # <<>> \/ media.videos # <<>>
             /\ scraper.tweets[k].images = <<>>
             /\ scraper.tweets[k].videos = <<>>

====
